---------------------------- MODULE Spec2Model ----------------------------
(***************************************************************************)
(* Model of the test harness of the data cleaning pipeline (5_tests):      *)
(*   - the Extractor: extract_test_results and the edge-case pattern of    *)
(*     run_stata_test (run_tests.py), as regular-expression matching over  *)
(*     texts that are sequences of one-character strings;                  *)
(*   - the Runner: run_python_test, run_stata_test (run_tests.py),         *)
(*     DataCleaningTester.test_individual_dofile / _test_dataset_pipeline  *)
(*     (test_framework.py) and DataIntegrityTester.run_stata_check         *)
(*     (data_integrity_tests.py), step by step over a shared file system;  *)
(*   - the batch: __main__ with its two calls of run_all_tests, the probe  *)
(*     of the engine, collect_test_results and generate_report             *)
(*     (run_tests.py);                                                     *)
(*   - the pass rate of generate_report and of                             *)
(*     DataCleaningTester.run_all_tests (test_framework.py);               *)
(*   - the engine command from --stata to the probe and the launch         *)
(*     (run_tests.py), the test methods of DataIntegrityTester             *)
(*     (data_integrity_tests.py) and the phases of                         *)
(*     DataCleaningTester.run_all_tests (test_framework.py).               *)
(***************************************************************************)
EXTENDS Integers, Sequences, FiniteSets, TLC

VARIABLES
    \* ---- Extractor (SpecExtract) ----
    text,       \* the output text handed to the Extractor
    recs,       \* the records of the last extraction
    recs2,      \* the records of a second extraction of the same text
    mode,       \* "none" | "log" (extract_test_results) | "edge" (run_stata_test pattern)
    \* ---- Runner calls (SpecCalls) ----
    fs,         \* temp script path -> 0 (no file) or the call whose script it holds
    call,       \* per call: position in the function, kind, child, outcome
    \* ---- batch (Spec) ----
    pc,         \* position of run_all_tests
    skip_stata, \* globals()['skip_stata']
    stata_ok,   \* what is_stata_available answers in this run
    present,    \* the script files that exist beside run_tests.py
    xlsx,       \* the spreadsheet files under tests/, each a record list or "unreadable"
    idx,        \* index of the script the loop is at
    results,    \* results map: script name -> entry
    order,      \* insertion order of the results map
    all_results,\* what collect_test_results returned
    report,     \* what generate_report computed and wrote, if it was called
    \* ---- the invocation of run_tests.py (Spec) ----
    run,        \* which of the calls of run_all_tests in __main__ this is
    probe,      \* what the engine probe of is_stata_available ends with
    dofiles,    \* the project holds the do-files that test_framework.py runs
    launched,   \* script name -> how often the script was launched
    engine_by,  \* who started a process of the statistical engine
    report_calls, \* the timestamps generate_report was called with
    exit_code,  \* exit status of the process, -1 while it runs
    \* ---- pass rates (SpecRate) ----
    rate_in,    \* the statuses of the records a pass rate is computed for
    rate_out,   \* the computed pass rate and who computed it
    \* ---- the engine command (SpecEngine) ----
    stata_arg,  \* args.stata: the --stata argument, "none" when not given
    found_cmd,  \* what determine_stata_command() returns on this system
    stata_cmd,  \* globals()['stata_cmd'], "unset" when __main__ did not set it
    probed_cmd, \* the command is_stata_available was called with
    launched_cmd, \* the command run_stata_test passed to subprocess.run
    epc,        \* position in __main__ / run_all_tests / run_stata_test
    \* ---- DataIntegrityTester (SpecIntegrity) ----
    check_out,  \* what the successive calls of run_stata_check return
    dit_results, \* self.results: test name -> status
    dit_return, \* the test method that ran and the value it returned
    \* ---- DataCleaningTester (SpecCleaning) ----
    listing,    \* os.listdir of 2_code/PS_Students and 2_code/PS_Parents
    master,     \* 2_code/1_master.do exists
    writable,   \* the temporary scripts can be written under root_dir
    tpc,        \* the phase run_all_tests is at
    ti,         \* index of the do-file the phase's loop is at
    t_results,  \* results: the (name, status) entries in insertion order
    t_log       \* the temporary scripts written and the engine runs, in order

vars == <<text, recs, recs2, mode, fs, call, pc, skip_stata, stata_ok, present, xlsx,
          idx, results, order, all_results, report, run, probe, dofiles,
          launched, engine_by, report_calls, exit_code, rate_in, rate_out,
          stata_arg, found_cmd, stata_cmd, probed_cmd, launched_cmd, epc,
          check_out, dit_results, dit_return,
          listing, master, writable, tpc, ti, t_results, t_log>>

extractVars == <<text, recs, recs2, mode>>
callVars    == <<fs, call>>
mainVars    == <<run, probe, dofiles, launched, engine_by, report_calls,
                 exit_code>>
rateVars    == <<rate_in, rate_out>>
engineVars  == <<stata_arg, found_cmd, stata_cmd, probed_cmd, launched_cmd, epc>>
integrityVars == <<check_out, dit_results, dit_return>>
cleaningVars == <<listing, master, writable, tpc, ti, t_results, t_log>>
laterVars   == <<engineVars, integrityVars, cleaningVars>>
batchVars   == <<pc, skip_stata, stata_ok, present, xlsx, idx, results, order,
                 all_results, report, mainVars, rateVars, laterVars>>

Min(S) == CHOOSE x \in S : \A y \in S : x <= y
Max(S) == CHOOSE x \in S : \A y \in S : x >= y

(***************************************************************************)
(* Characters and character classes of Python's re (str patterns).         *)
(***************************************************************************)
Upper == {"A","B","C","D","E","F","G","H","I","J","K","L","M","N","O","P","Q",
          "R","S","T","U","V","W","X","Y","Z"}
Lower == {"a","b","c","d","e","f","g","h","i","j","k","l","m","n","o","p","q",
          "r","s","t","u","v","w","x","y","z"}
Digit == {"0","1","2","3","4","5","6","7","8","9"}

\* \w
IsWord(c) == c \in Upper \cup Lower \cup Digit \cup {"_"}
\* \s
IsSpace(c) == c \in {" ", "\n", "\t"}
\* [\w\s\-]
IsNameChar(c) == IsWord(c) \/ IsSpace(c) \/ c = "-"
\* [\s\w]
IsEdgeNameChar(c) == IsSpace(c) \/ IsWord(c)

\* The status words of the two patterns, in the order of their alternations.
PASS         == <<"P","A","S","S">>
FAIL         == <<"F","A","I","L">>
WARNING      == <<"W","A","R","N","I","N","G">>
PARTIAL      == <<"P","A","R","T","I","A","L">>
INCONCLUSIVE == <<"I","N","C","O","N","C","L","U","S","I","V","E">>
ERROR        == <<"E","R","R","O","R">>

Tok(name, chars) == [tok |-> name, chars |-> chars]

\* (PASS|FAIL|WARNING|PARTIAL|INCONCLUSIVE), run_tests.py line 142
LogStatuses ==
    << Tok("PASS", PASS), Tok("FAIL", FAIL), Tok("WARNING", WARNING),
       Tok("PARTIAL", PARTIAL), Tok("INCONCLUSIVE", INCONCLUSIVE) >>

\* (PASS|FAIL|ERROR|WARNING|INCONCLUSIVE), run_tests.py line 235
EdgeStatuses ==
    << Tok("PASS", PASS), Tok("FAIL", FAIL), Tok("ERROR", ERROR),
       Tok("WARNING", WARNING), Tok("INCONCLUSIVE", INCONCLUSIVE) >>

\* the six statuses of the report (generate_report's result_class table)
SixStatuses == {"PASS", "FAIL", "ERROR", "WARNING", "PARTIAL", "INCONCLUSIVE"}

(***************************************************************************)
(* Regular-expression primitives.  Positions are 1-based; a match of a     *)
(* literal w at p covers t[p .. p+Len(w)-1].                               *)
(***************************************************************************)
StartsWith(t, p, w) ==
    /\ p >= 1
    /\ p + Len(w) - 1 <= Len(t)
    /\ \A i \in 1..Len(w) : t[p + i - 1] = w[i]

\* the alternation: index of the first alternative that matches at p, or 0
AltMatch(t, p, alts) ==
    LET S == {i \in 1..Len(alts) : StartsWith(t, p, alts[i].chars)}
    IN  IF S = {} THEN 0 ELSE Min(S)

\* membership in a character class, by the class's name
InClass(cls, c) ==
    CASE cls = "space"    -> IsSpace(c)
      [] cls = "word"     -> IsWord(c)
      [] cls = "name"     -> IsNameChar(c)
      [] cls = "edgename" -> IsEdgeNameChar(c)
      [] cls = "notnl"    -> c # "\n"

\* last index of the longest run of cls characters starting at s (s-1: none)
RECURSIVE RunEnd(_, _, _)
RunEnd(t, s, cls) ==
    IF s <= Len(t) /\ InClass(cls, t[s]) THEN RunEnd(t, s + 1, cls) ELSE s - 1

\* str.strip()
Strip(w) ==
    LET keep == {i \in 1..Len(w) : ~IsSpace(w[i])}
    IN  IF keep = {} THEN <<>> ELSE SubSeq(w, Min(keep), Max(keep))

(***************************************************************************)
(* extract_test_results: the pattern                                       *)
(*     ([\w\s\-]+):\s+(PASS|FAIL|WARNING|PARTIAL|INCONCLUSIVE)             *)
(* A match that starts at s is decided by e, the last index of group 1,    *)
(* and w, the last index of the \s+ run.  Both quantifiers are greedy, so  *)
(* the backtracking matcher takes the largest e, then the largest w, for   *)
(* which the rest of the pattern matches.                                  *)
(***************************************************************************)
NoMatch == [ok |-> FALSE]

\* generate_report has not been called, or returned (None, None)
NoReport == [built |-> FALSE]

\* no pass rate has been computed
NoRate == [by |-> "none"]

\* the variables of run_tests.py's invocation and of the pass rates, in the
\* specifications that do not use them
IdleMain ==
    /\ run = 0 /\ probe = "zero" /\ dofiles = FALSE /\ launched = <<>>
    /\ engine_by = {} /\ report_calls = <<>> /\ exit_code = 0 - 1

IdleRate == rate_in = <<>> /\ rate_out = NoRate

\* the variables of the engine command, of DataIntegrityTester and of
\* DataCleaningTester, in the specifications that do not use them
IdleEngine ==
    /\ stata_arg = "none" /\ found_cmd = "none" /\ stata_cmd = "unset"
    /\ probed_cmd = "none" /\ launched_cmd = "none" /\ epc = "idle"

\* no test method of DataIntegrityTester has returned
NoVerdict == [method |-> "none"]

IdleIntegrity ==
    check_out = <<>> /\ dit_results = <<>> /\ dit_return = NoVerdict

IdleCleaning ==
    /\ listing = <<>> /\ master = FALSE /\ writable = FALSE /\ tpc = "idle"
    /\ ti = 0 /\ t_results = <<>> /\ t_log = <<>>

IdleLater == IdleEngine /\ IdleIntegrity /\ IdleCleaning

\* the \s+ run after the colon at position col, followed by a status word
StatusAfterColon(t, col, alts) ==
    LET ws == {w \in (col + 1)..RunEnd(t, col + 1, "space") :
                  AltMatch(t, w + 1, alts) # 0}
    IN  IF ws = {} THEN NoMatch
        ELSE LET w == Max(ws)
                 a == AltMatch(t, w + 1, alts)
             IN  [ok |-> TRUE, alt |-> a, last |-> w + Len(alts[a].chars)]

LogMatchAt(t, s) ==
    LET es == {e \in s..RunEnd(t, s, "name") :
                  /\ e + 1 <= Len(t)
                  /\ t[e + 1] = ":"
                  /\ StatusAfterColon(t, e + 1, LogStatuses).ok}
    IN  IF es = {} THEN NoMatch
        ELSE LET e  == Max(es)
                 st == StatusAfterColon(t, e + 1, LogStatuses)
             IN  [ok |-> TRUE, first |-> s, g1 |-> SubSeq(t, s, e),
                  result |-> LogStatuses[st.alt].tok, last |-> st.last]

\* re.search of the context pattern of line 151 (re.DOTALL),
\*     <escaped test_name>[^\n]*\n\s+(.+?)(?:\n\n|\n[A-Z])
\* from start position s: a is the last index of [^\n]* (greedy), b the last
\* index of \s+ (greedy), c the last index of the lazy group.
ContextEnds(t, c) ==
    \/ StartsWith(t, c + 1, <<"\n", "\n">>)
    \/ /\ c + 2 <= Len(t)
       /\ t[c + 1] = "\n"
       /\ t[c + 2] \in Upper

ContextGroup(t, q) ==
    LET as == {a \in (q - 1)..RunEnd(t, q, "notnl") :
                  /\ a + 1 <= Len(t)
                  /\ t[a + 1] = "\n"
                  /\ \E b \in (a + 2)..RunEnd(t, a + 2, "space") :
                        \E c \in (b + 1)..Len(t) : ContextEnds(t, c)}
    IN  IF as = {} THEN NoMatch
        ELSE LET a == Max(as)
                 b == Max({x \in (a + 2)..RunEnd(t, a + 2, "space") :
                              \E c \in (x + 1)..Len(t) : ContextEnds(t, c)})
                 c == Min({x \in (b + 1)..Len(t) : ContextEnds(t, x)})
             IN  [ok |-> TRUE, group |-> SubSeq(t, b + 1, c)]

\* notes of a record, lines 149-153: the first place in the whole text where
\* the context pattern matches
RECURSIVE ContextSearch(_, _, _)
ContextSearch(t, name, s) ==
    IF s > Len(t) + 1 THEN NoMatch
    ELSE IF StartsWith(t, s, name) /\ ContextGroup(t, s + Len(name)).ok
         THEN ContextGroup(t, s + Len(name))
         ELSE ContextSearch(t, name, s + 1)

ContextNotes(t, name) ==
    LET m == ContextSearch(t, name, 1)
    IN  IF m.ok THEN Strip(m.group) ELSE <<>>

LogRecord(t, m) ==
    LET name == Strip(m.g1)
    IN  [test_category |-> "Data Integrity",
         test_name     |-> name,
         result        |-> m.result,
         notes         |-> ContextNotes(t, name)]

\* LogFindAll stopping after the first match (re.search for re.finditer)
RECURSIVE LogFindAll_FirstOnly(_, _)
LogFindAll_FirstOnly(t, pos) ==
    IF pos > Len(t) THEN <<>>
    ELSE LET m == LogMatchAt(t, pos)
         IN  IF m.ok THEN <<LogRecord(t, m)>>
             ELSE LogFindAll_FirstOnly(t, pos + 1)

\* re.finditer: the leftmost match at or after pos, then on from its end
RECURSIVE LogFindAll(_, _)
LogFindAll(t, pos) ==
    IF pos > Len(t) THEN <<>>
    ELSE LET m == LogMatchAt(t, pos)
         IN  IF m.ok THEN <<LogRecord(t, m)>> \o LogFindAll(t, m.last + 1)
             ELSE LogFindAll(t, pos + 1)

extract_test_results(output_text) == LogFindAll(output_text, 1)

(***************************************************************************)
(* run_stata_test, lines 235-246: the edge-case pattern (re.DOTALL)        *)
(*   (\w+[\s\w]*?):\s+(PASS|FAIL|ERROR|WARNING|INCONCLUSIVE)\s*(.+?)       *)
(*                                                       (?=\n\n|\Z)       *)
(* \w+[\s\w]*? matches exactly the strings that start with a word          *)
(* character and go on with [\s\w] characters, and the colon that must     *)
(* follow is in neither class: group 1 is t[s..e] with e the index before  *)
(* the first colon.  k is the last index of \s* (greedy), c the last index *)
(* of the lazy group 3.                                                    *)
(***************************************************************************)
EdgeLookahead(t, c) ==
    \/ StartsWith(t, c + 1, <<"\n", "\n">>)
    \/ c = Len(t)

EdgeTail(t, z) ==
    LET ks == {k \in z..RunEnd(t, z + 1, "space") :
                  \E c \in (k + 1)..Len(t) : EdgeLookahead(t, c)}
    IN  IF ks = {} THEN NoMatch
        ELSE LET k == Max(ks)
                 c == Min({x \in (k + 1)..Len(t) : EdgeLookahead(t, x)})
             IN  [ok |-> TRUE, g3 |-> SubSeq(t, k + 1, c), last |-> c]

EdgeMatchAt(t, s) ==
    IF ~IsWord(t[s]) THEN NoMatch
    ELSE
    LET es == {e \in s..RunEnd(t, s, "edgename") :
                  /\ e + 1 <= Len(t)
                  /\ t[e + 1] = ":"
                  /\ StatusAfterColon(t, e + 1, EdgeStatuses).ok
                  /\ EdgeTail(t, StatusAfterColon(t, e + 1, EdgeStatuses).last).ok}
    IN  IF es = {} THEN NoMatch
        ELSE LET e  == Max(es)
                 st == StatusAfterColon(t, e + 1, EdgeStatuses)
                 tl == EdgeTail(t, st.last)
             IN  [ok |-> TRUE, first |-> s, g1 |-> SubSeq(t, s, e),
                  result |-> EdgeStatuses[st.alt].tok, g3 |-> tl.g3,
                  last |-> tl.last]

EdgeRecord(m) ==
    [test_category |-> "Edge Cases",
     test_name     |-> Strip(m.g1),
     result        |-> m.result,
     notes         |-> Strip(m.g3)]

RECURSIVE EdgeFindAll(_, _)
EdgeFindAll(t, pos) ==
    IF pos > Len(t) THEN <<>>
    ELSE LET m == EdgeMatchAt(t, pos)
         IN  IF m.ok THEN <<EdgeRecord(m)>> \o EdgeFindAll(t, m.last + 1)
             ELSE EdgeFindAll(t, pos + 1)

edge_case_results(stdout) == EdgeFindAll(stdout, 1)

(***************************************************************************)
(* SpecExtract: the Extractor applied to every text that is an optional    *)
(* marker head "Ab: " followed by at most MaxPieces pieces.                *)
(***************************************************************************)
MaxPieces == 3

NameAb == <<"A","b">>
ColonSpace == <<":"," ">>

Pieces ==
    { NameAb, ColonSpace, <<"\n">>, <<"-">>, <<"E","D">>,
      <<"p","a","s","s">>,
      PASS, FAIL, WARNING, PARTIAL, INCONCLUSIVE, ERROR }

Heads == { <<>>, NameAb \o ColonSpace }

RECURSIVE Flatten(_)
Flatten(ps) == IF ps = <<>> THEN <<>> ELSE Head(ps) \o Flatten(Tail(ps))

Texts ==
    {h \o Flatten(ps) :
        h \in Heads, ps \in UNION {[1..n -> Pieces] : n \in 0..MaxPieces}}

InitExtract ==
    /\ text \in Texts
    /\ recs = <<>>
    /\ recs2 = <<>>
    /\ mode = "none"
    /\ fs = <<>> /\ call = <<>>
    /\ pc = "idle" /\ skip_stata = FALSE /\ stata_ok = FALSE /\ present = {}
    /\ xlsx = <<>> /\ idx = 0 /\ results = <<>> /\ order = <<>>
    /\ all_results = <<>> /\ report = NoReport
    /\ IdleMain /\ IdleRate /\ IdleLater

\* run_python_test line 183: test_results = extract_test_results(result.stdout)
ExtractLog ==
    /\ mode = "none"
    /\ mode' = "log"
    /\ recs' = extract_test_results(text)
    /\ UNCHANGED <<text, recs2, callVars, batchVars>>

\* run_stata_test lines 235-246 on the stdout of edge_case_tests.do
ExtractEdge ==
    /\ mode = "none"
    /\ mode' = "edge"
    /\ recs' = edge_case_results(text)
    /\ UNCHANGED <<text, recs2, callVars, batchVars>>

\* ExtractLogAgain with a results list that is kept between the calls
ExtractLogAgain_KeepsResults ==
    /\ mode = "log"
    /\ mode' = "log2"
    /\ recs2' = recs \o extract_test_results(text)
    /\ UNCHANGED <<text, recs, callVars, batchVars>>

\* extract_test_results called once more on the same text: its list
\* "results = []" (line 139) is local to the call
ExtractLogAgain ==
    /\ mode = "log"
    /\ mode' = "log2"
    /\ recs2' = extract_test_results(text)
    /\ UNCHANGED <<text, recs, callVars, batchVars>>

NextExtract == ExtractLog \/ ExtractEdge \/ ExtractLogAgain

SpecExtract == InitExtract /\ [][NextExtract]_vars

(***************************************************************************)
(* SpecLines: the Extractor applied to every text of at most MaxLines      *)
(* lines, each line ended by a newline: marker lines, an indented note, a  *)
(* blank line, a line starting with a capital letter, and a line that      *)
(* holds a test name outside a marker.                                     *)
(***************************************************************************)
MaxLines == 4

MarkerLines ==
    { NameAb \o ColonSpace \o PASS,
      NameAb \o ColonSpace \o FAIL,
      <<"A","-","b">> \o ColonSpace \o PASS }

NoteLine == <<" ","x",".">>

LineKinds == MarkerLines \cup {NoteLine, <<>>, <<"E","D">>, <<"A","b",".">>}

RECURSIVE JoinLines(_)
JoinLines(ls) ==
    IF ls = <<>> THEN <<>> ELSE Head(ls) \o <<"\n">> \o JoinLines(Tail(ls))

LineTexts ==
    {JoinLines(ls) : ls \in UNION {[1..n -> LineKinds] : n \in 0..MaxLines}}

InitLines ==
    /\ text \in LineTexts
    /\ recs = <<>>
    /\ recs2 = <<>>
    /\ mode = "none"
    /\ fs = <<>> /\ call = <<>>
    /\ pc = "idle" /\ skip_stata = FALSE /\ stata_ok = FALSE /\ present = {}
    /\ xlsx = <<>> /\ idx = 0 /\ results = <<>> /\ order = <<>>
    /\ all_results = <<>> /\ report = NoReport
    /\ IdleMain /\ IdleRate /\ IdleLater

SpecLines == InitLines /\ [][NextExtract]_vars

(***************************************************************************)
(* Claims about the Extractor.                                             *)
(***************************************************************************)
SixStatusWords ==
    { Tok("PASS", PASS), Tok("FAIL", FAIL), Tok("WARNING", WARNING),
      Tok("PARTIAL", PARTIAL), Tok("INCONCLUSIVE", INCONCLUSIVE),
      Tok("ERROR", ERROR) }

\* position p starts a whole word equal to w: w is there and no word
\* character follows it
WholeWordAt(t, p, w) ==
    /\ StartsWith(t, p, w)
    /\ (p + Len(w) <= Len(t) => ~IsWord(t[p + Len(w)]))

\* the text has a colon, white space and then one of the six status tokens
\* as a whole word
HasExactMarker(t) ==
    \E col \in 1..Len(t) :
        /\ t[col] = ":"
        /\ RunEnd(t, col + 1, "space") >= col + 1
        /\ \E st \in SixStatusWords :
              WholeWordAt(t, RunEnd(t, col + 1, "space") + 1, st.chars)

\* a line of the text is exactly the marker "<name>: <word>"
HasMarkerLine(t, name, w) ==
    \E p \in 1..Len(t) :
        /\ p = 1 \/ t[p - 1] = "\n"
        /\ StartsWith(t, p, name \o ColonSpace \o w)
        /\ LET q == p + Len(name) + 2 + Len(w)
           IN  q > Len(t) \/ t[q] = "\n"

\* the lines of a text whose lines each end with a newline
RECURSIVE SplitLines(_, _)
SplitLines(t, s) ==
    IF s > Len(t) THEN <<>>
    ELSE LET e == RunEnd(t, s, "notnl")
         IN  <<SubSeq(t, s, e)>> \o SplitLines(t, e + 2)

\* the indices of the marker lines, in the order of the text
RECURSIVE MarkerIndices(_, _)
MarkerIndices(ls, i) ==
    IF i > Len(ls) THEN <<>>
    ELSE (IF ls[i] \in MarkerLines THEN <<i>> ELSE <<>>)
         \o MarkerIndices(ls, i + 1)

\* the positions of the colons, in the order of the text
RECURSIVE ColonPositions(_, _)
ColonPositions(t, p) ==
    IF p > Len(t) THEN <<>>
    ELSE (IF t[p] = ":" THEN <<p>> ELSE <<>>) \o ColonPositions(t, p + 1)

\* first index of the longest run of word, blank and hyphen characters that
\* ends at e, within the line (e + 1: none)
RECURSIVE NameStart(_, _)
NameStart(t, e) ==
    IF e >= 1 /\ (IsWord(t[e]) \/ t[e] \in {" ", "\t", "-"})
    THEN NameStart(t, e - 1) ELSE e + 1

NameBeforeColon(t, col) == Strip(SubSeq(t, NameStart(t, col - 1), col - 1))

C22_NameIsRunBeforeColon ==
    LET cols == ColonPositions(text, 1)
    IN  mode \in {"log", "edge"} /\ Len(recs) = Len(cols) =>
            \A k \in 1..Len(recs) :
                recs[k].test_name = NameBeforeColon(text, cols[k])

\* last index of the run of indented lines that starts at line i (i-1: none)
RECURSIVE BlockEnd(_, _)
BlockEnd(ls, i) ==
    IF i <= Len(ls) /\ ls[i] # <<>> /\ ls[i][1] = " "
    THEN BlockEnd(ls, i + 1) ELSE i - 1

\* the block after marker line i is empty, or ends at a blank line or at a
\* line that starts with a capital letter
BlockClosed(ls, i) ==
    LET e == BlockEnd(ls, i + 1)
    IN  \/ e = i
        \/ /\ e < Len(ls)
           /\ (ls[e + 1] = <<>> \/ ls[e + 1][1] \in Upper)

RECURSIVE JoinBlock(_)
JoinBlock(ls) ==
    IF ls = <<>> THEN <<>>
    ELSE IF Len(ls) = 1 THEN ls[1]
    ELSE Head(ls) \o <<"\n">> \o JoinBlock(Tail(ls))

BlockNotes(ls, i) == Strip(JoinBlock(SubSeq(ls, i + 1, BlockEnd(ls, i + 1))))

\* C23: the notes of a record are the indented block that follows its own
\* marker line, up to the next blank line or line starting with a capital
\* letter, and empty when no such block follows; also when the test name
\* occurs several times in the text.
C23_NotesOfOwnMarker ==
    LET ls == SplitLines(text, 1)
        ms == MarkerIndices(ls, 1)
    IN  mode = "log" /\ Len(recs) = Len(ms) =>
            \A k \in 1..Len(recs) :
                BlockClosed(ls, ms[k]) => recs[k].notes = BlockNotes(ls, ms[k])

C8_StatusClosedNoCoercion ==
    mode # "none" =>
        /\ \A i \in 1..Len(recs) : recs[i].result \in SixStatuses
        /\ (~HasExactMarker(text) => recs = <<>>)

\* C9: for each of the six tokens T, a text with the marker line "Ab: T"
\* yields, under both patterns, a record named Ab with status T.
C9_AllSixRecognized ==
    mode # "none" =>
        \A st \in SixStatusWords :
            HasMarkerLine(text, NameAb, st.chars) =>
                \E i \in 1..Len(recs) :
                    /\ recs[i].test_name = NameAb
                    /\ recs[i].result = st.tok

\* C10: a text "Ab: <T>ED", whose word after the colon only starts with a
\* status token T, yields no record.
C10_ExactTokenMatch ==
    mode # "none" =>
        \A st \in SixStatusWords :
            text = NameAb \o ColonSpace \o st.chars \o <<"E","D">> =>
                recs = <<>>

(***************************************************************************)
(* The Runner.  What a child process can end with, and what the runner     *)
(* functions return for it.                                                *)
(***************************************************************************)
\* str(e) of the FileNotFoundError / OSError that subprocess.run or
\* os.remove raises
ErrnoText == <<"[","E","r","r","n","o"," ","2","]">>
StderrText == <<"r","(","6","0","1",")">>

OutPass == NameAb \o ColonSpace \o PASS \o <<"\n">>
OutFailInconclusive ==
    NameAb \o ColonSpace \o FAIL \o <<"\n">> \o
    NameAb \o ColonSpace \o INCONCLUSIVE \o <<"\n">>

Outcome(rc, out, err) == [returncode |-> rc, stdout |-> out, stderr |-> err]

\* the results of a child that exited (result.returncode, .stdout, .stderr)
ChildOutcomes ==
    { Outcome(0, OutPass, <<>>),
      Outcome(0, OutFailInconclusive, <<>>),
      Outcome(0, <<>>, <<>>),
      Outcome(1, OutPass, StderrText),
      Outcome(1, <<>>, <<>>) }

Triple(success, output, test_results) ==
    [success |-> success, output |-> output, test_results |-> test_results]

\* run_python_test lines 175-185, after subprocess.run returned
PythonReturn(o) ==
    IF o.returncode # 0 THEN Triple(FALSE, o.stderr, <<>>)
    ELSE Triple(TRUE, o.stdout, extract_test_results(o.stdout))

\* run_python_test lines 186-188
PythonExcept(e) == Triple(FALSE, e, <<>>)

\* run_stata_test lines 223-248; is_edge: "edge_case_tests.do" in script_path
StataReturn(o, is_edge) ==
    IF o.returncode # 0 THEN Triple(FALSE, o.stderr, <<>>)
    ELSE Triple(TRUE, o.stdout,
                IF is_edge THEN edge_case_results(o.stdout) ELSE <<>>)

\* run_stata_test lines 249-254
StataExcept(e) == Triple(FALSE, e, <<>>)

\* run_stata_check lines 90-102: the stdout, or None (success FALSE)
CheckReturn(o) ==
    IF o.returncode # 0 THEN Triple(FALSE, <<>>, <<>>)
    ELSE Triple(TRUE, o.stdout, <<>>)

\* run_stata_command lines 160-170: (success, output)
CommandReturn(o) ==
    IF o.returncode # 0 THEN Triple(FALSE, o.stderr, <<>>)
    ELSE Triple(TRUE, o.stdout, <<>>)

CommandExcept(e) == Triple(FALSE, e, <<>>)

(***************************************************************************)
(* SpecCalls: two calls of runner functions against the same project root, *)
(* step by step.  fs maps a temp script path to the call whose script the  *)
(* file holds (0: no such file).                                           *)
(***************************************************************************)
Calls == {1, 2}

Kinds == { "run_python_test", "run_stata_test", "run_stata_check",
           "test_individual_dofile", "_test_dataset_pipeline" }

\* the functions that wrap the temp script in try/except
TryKinds == {"run_stata_test", "run_stata_check"}
\* the functions that call run_stata_command, which catches every Exception
CommandKinds == {"test_individual_dofile", "_test_dataset_pipeline"}
TempKinds == TryKinds \cup CommandKinds

\* the temp script of a call: os.path.join(root_dir, <fixed name>)
TempPath(k) ==
    CASE k = "run_stata_test"         -> "temp_wrapper.do"
      [] k = "run_stata_check"        -> "temp_check_script.do"
      [] k = "test_individual_dofile" -> "temp_test_script.do"
      [] k = "_test_dataset_pipeline" -> "temp_test_PS_Students.do"
      [] OTHER                        -> "none"

Paths == {TempPath(k) : k \in TempKinds}

NoOutcome == Outcome(0, <<>>, <<>>)
NoReturn == Triple(FALSE, <<>>, <<>>)

NewCall(k, edge) ==
    [kind    |-> k,
     is_edge |-> edge,     \* "edge_case_tests.do" in script_path
     pc      |-> "start",
     child   |-> "none",   \* none | started | running | exited | hung
     o       |-> NoOutcome,
     e       |-> <<>>,     \* str(e) of the exception being handled
     no_exe  |-> FALSE,    \* the executable to launch did not exist
     made    |-> FALSE,    \* this call created its temp script
     ran     |-> 0,        \* whose script the child executed (-1: no file)
     removed |-> 0,        \* whose script this call removed
     ret     |-> NoReturn]

InitCalls ==
    /\ fs = [p \in Paths |-> 0]
    /\ call \in [Calls -> {NewCall(k, edge) : k \in Kinds, edge \in BOOLEAN}]
    /\ \A c \in Calls : call[c].is_edge => call[c].kind = "run_stata_test"
    /\ text = <<>> /\ recs = <<>> /\ recs2 = <<>> /\ mode = "none"
    /\ pc = "idle" /\ skip_stata = FALSE /\ stata_ok = FALSE /\ present = {}
    /\ xlsx = <<>> /\ idx = 0 /\ results = <<>> /\ order = <<>>
    /\ all_results = <<>> /\ report = NoReport
    /\ IdleMain /\ IdleRate /\ IdleLater

Path(c) == TempPath(call[c].kind)

Set(c, upd) ==
    /\ call' = [call EXCEPT ![c] = upd]
    /\ UNCHANGED <<extractVars, batchVars>>

\* run_python_test has no temp script: it goes straight to subprocess.run
StartPython(c) ==
    /\ call[c].pc = "start" /\ call[c].kind = "run_python_test"
    /\ Set(c, [call[c] EXCEPT !.pc = "spawn"])
    /\ UNCHANGED fs

\* open(temp_script, "w"): creates or truncates the file, or raises; the
\* statement is outside every try block
OpenTemp(c) ==
    /\ call[c].pc = "start" /\ call[c].kind \in TempKinds
    /\ \/ /\ fs' = [fs EXCEPT ![Path(c)] = c]
          /\ Set(c, [call[c] EXCEPT !.pc = "opened", !.made = TRUE])
       \/ /\ Set(c, [call[c] EXCEPT !.pc = "raised", !.e = ErrnoText])
          /\ UNCHANGED fs

\* f.write(...) and the close of the with block: succeeds, or raises with
\* the file left as it is
WriteTemp(c) ==
    /\ call[c].pc = "opened"
    /\ \/ Set(c, [call[c] EXCEPT !.pc = "spawn"])
       \/ Set(c, [call[c] EXCEPT !.pc = "raised", !.e = ErrnoText])
    /\ UNCHANGED fs

\* where an exception raised inside the function's try block lands
Caught(c, e) ==
    CASE call[c].kind = "run_python_test" ->
            [call[c] EXCEPT !.pc = "returned", !.e = e, !.ret = PythonExcept(e)]
      [] call[c].kind \in TryKinds ->
            [call[c] EXCEPT !.pc = "except", !.e = e]
      [] call[c].kind \in CommandKinds ->
            [call[c] EXCEPT !.pc = "cleanup", !.e = e, !.ret = CommandExcept(e)]

\* subprocess.run(cmd_parts, ...) with no timeout argument: the spawn raises
\* (the executable does not exist, or another OSError), or the child starts
\* and the call waits for it
Spawn(c) ==
    /\ call[c].pc = "spawn"
    /\ \/ Set(c, [call[c] EXCEPT !.pc = "waiting", !.child = "started"])
       \/ \E missing \in BOOLEAN :
             Set(c, [Caught(c, ErrnoText) EXCEPT !.no_exe = missing])
    /\ UNCHANGED fs

\* the engine reads the do-file it was given (the Python child reads no
\* temp script)
ChildRead(c) ==
    /\ call[c].child = "started"
    /\ Set(c, [call[c] EXCEPT
                 !.child = "running",
                 !.ran = IF call[c].kind \notin TempKinds THEN 0
                         ELSE IF fs[Path(c)] = 0 THEN -1 ELSE fs[Path(c)]])
    /\ UNCHANGED fs

\* the child exits; an engine that found no do-file exits with an error
ChildExit(c) ==
    /\ call[c].child = "running"
    /\ \E o \in ChildOutcomes :
          /\ call[c].ran = -1 => o.returncode # 0
          /\ Set(c, [call[c] EXCEPT !.child = "exited", !.o = o])
    /\ UNCHANGED fs

\* the child never exits on its own
ChildHang(c) ==
    /\ call[c].child \in {"started", "running"}
    /\ Set(c, [call[c] EXCEPT !.child = "hung"])
    /\ UNCHANGED fs

\* subprocess.run returns once the child has exited
Waited(c) ==
    /\ call[c].pc = "waiting" /\ call[c].child = "exited"
    /\ Set(c, CASE call[c].kind = "run_python_test" ->
                     [call[c] EXCEPT !.pc = "returned",
                                     !.ret = PythonReturn(call[c].o)]
                [] call[c].kind = "run_stata_test" ->
                     [call[c] EXCEPT !.pc = "cleanup",
                                     !.ret = StataReturn(call[c].o, call[c].is_edge)]
                [] call[c].kind = "run_stata_check" ->
                     [call[c] EXCEPT !.pc = "cleanup",
                                     !.ret = CheckReturn(call[c].o)]
                [] call[c].kind \in CommandKinds ->
                     [call[c] EXCEPT !.pc = "cleanup",
                                     !.ret = CommandReturn(call[c].o)])
    /\ UNCHANGED fs

\* "if os.path.exists(temp_script):" of the clean-up after the run
CleanupExists(c) ==
    /\ call[c].pc = "cleanup"
    /\ Set(c, [call[c] EXCEPT
                 !.pc = IF fs[Path(c)] # 0 THEN "remove" ELSE "returned"])
    /\ UNCHANGED fs

\* "os.remove(temp_script)": removes whatever file is at the path; raises
\* FileNotFoundError when the file went away since the check
CleanupRemove(c) ==
    /\ call[c].pc = "remove"
    /\ IF fs[Path(c)] # 0
       THEN /\ fs' = [fs EXCEPT ![Path(c)] = 0]
            /\ Set(c, [call[c] EXCEPT !.pc = "returned",
                                      !.removed = fs[Path(c)]])
       ELSE /\ UNCHANGED fs
            /\ Set(c, IF call[c].kind \in TryKinds
                      THEN [call[c] EXCEPT !.pc = "except", !.e = ErrnoText]
                      ELSE [call[c] EXCEPT !.pc = "raised", !.e = ErrnoText])

ExceptReturn(c) ==
    IF call[c].kind = "run_stata_test" THEN StataExcept(call[c].e)
    ELSE Triple(FALSE, <<>>, <<>>)

\* the except handler of run_stata_test / run_stata_check:
\* "if os.path.exists(temp_script):" then return
ExceptExists(c) ==
    /\ call[c].pc = "except"
    /\ Set(c, IF fs[Path(c)] # 0
              THEN [call[c] EXCEPT !.pc = "except_remove"]
              ELSE [call[c] EXCEPT !.pc = "returned", !.ret = ExceptReturn(c)])
    /\ UNCHANGED fs

\* "os.remove(temp_script)" inside the handler: an exception here leaves
\* the function
ExceptRemove(c) ==
    /\ call[c].pc = "except_remove"
    /\ IF fs[Path(c)] # 0
       THEN /\ fs' = [fs EXCEPT ![Path(c)] = 0]
            /\ Set(c, [call[c] EXCEPT !.pc = "returned",
                                      !.removed = fs[Path(c)],
                                      !.ret = ExceptReturn(c)])
       ELSE /\ UNCHANGED fs
            /\ Set(c, [call[c] EXCEPT !.pc = "raised", !.e = ErrnoText])

StepCall(c) ==
        \/ StartPython(c)
        \/ OpenTemp(c)
        \/ WriteTemp(c)
        \/ Spawn(c)
        \/ ChildRead(c)
        \/ ChildExit(c)
        \/ ChildHang(c)
        \/ Waited(c)
        \/ CleanupExists(c)
        \/ CleanupRemove(c)
        \/ ExceptExists(c)
        \/ ExceptRemove(c)

NextCalls == \E c \in Calls : StepCall(c)

SpecCalls == InitCalls /\ [][NextCalls]_vars

(***************************************************************************)
(* Claims about the Runner.                                                *)
(***************************************************************************)
Ended(c) == call[c].pc \in {"returned", "raised"}

\* C4: run_python_test and run_stata_test never raise, and when the
\* executable to launch does not exist they return success=False with a
\* non-empty error text and no records.
C4_RunnerNeverThrows ==
    \A c \in Calls :
        call[c].kind \in {"run_python_test", "run_stata_test"} =>
            /\ call[c].pc # "raised"
            /\ (call[c].pc = "returned" /\ call[c].no_exe =>
                   /\ ~call[c].ret.success
                   /\ call[c].ret.output # <<>>
                   /\ call[c].ret.test_results = <<>>)

\* C5: a call whose child process never exits on its own is not left waiting:
\* it has returned with success=False, or it still has a step to take (the
\* time budget running out, the child being terminated) that leads there.
\* Only the call's own steps change its position, so a call that is waiting
\* with no step to take never returns.
C5_HungChildIsTerminated ==
    \A c \in Calls :
        call[c].child = "hung" =>
            \/ call[c].pc = "returned" /\ ~call[c].ret.success
            \/ ENABLED StepCall(c)

\* C6: once a call that created a temp script has returned or raised, the
\* script it wrote is no longer on disk.
C6_TempScriptRemoved ==
    \A c \in Calls :
        Ended(c) /\ call[c].made => fs[Path(c)] # c

\* C7: the engine of a call only ever executes the script that call wrote,
\* and a call only ever removes its own script.
C7_NoTempCollision ==
    \A c \in Calls :
        /\ call[c].ran \in {0, c}
        /\ call[c].removed \in {0, c}

\* C11: the records of a check depend on its output text alone, not on its
\* exit code: two calls of the same runner function whose children printed
\* the same text return the same records.
C11_RecordsFromTextAlone ==
    \A c, d \in Calls :
        /\ call[c].kind \in {"run_python_test", "run_stata_test"}
        /\ call[c].kind = call[d].kind /\ call[c].is_edge = call[d].is_edge
        /\ call[c].pc = "returned" /\ call[d].pc = "returned"
        /\ call[c].child = "exited" /\ call[d].child = "exited"
        /\ call[c].o.stdout = call[d].o.stdout
        => call[c].ret.test_results = call[d].ret.test_results


(***************************************************************************)
(* Spec: one invocation of run_tests.py (__main__, lines 517-606) with its *)
(* two calls of run_all_tests (lines 436-515): the probe, a loop iteration *)
(* per action, then collect_test_results and generate_report.              *)
(***************************************************************************)
Script(name, type) == [name |-> name, type |-> type]

\* lines 455-462; stata_available is False when the probe is skipped
test_scripts(should_skip_stata, probe_ok) ==
    LET stata_available == ~should_skip_stata /\ probe_ok
    IN  << Script("test_framework.py", "python"),
           Script("data_integrity_tests.py", "python") >>
        \o (IF stata_available /\ ~should_skip_stata
            THEN << Script("edge_case_tests.do", "stata") >>
            ELSE << >>)

ScriptNames == {"test_framework.py", "data_integrity_tests.py", "edge_case_tests.do"}

Scripts == test_scripts(skip_stata, stata_ok)

ScriptNotFound ==
    <<"S","c","r","i","p","t"," ","n","o","t"," ","f","o","u","n","d">>

\* lines 475-479
MissingEntry ==
    [success |-> FALSE, output |-> ScriptNotFound, test_results |-> <<>>,
     has_elapsed_time |-> FALSE]

\* lines 493-498
RunEntry(r) ==
    [success |-> r.success, output |-> r.output, test_results |-> r.test_results,
     has_elapsed_time |-> TRUE]

\* line 276: the value pd.read_excel gives for an empty cell
NaN == "nan"

Rec(cat, name, result, notes) ==
    [test_category |-> cat, test_name |-> name, result |-> result, notes |-> notes]

\* the spreadsheet files that glob finds under tests/ and tests/logs/
XlsxFile(readable, rows) == [readable |-> readable, rows |-> rows]

XlsxConfigs ==
    { << >>,
      << XlsxFile(TRUE, << Rec("Old", NameAb, "WARNING", <<>>) >>) >>,
      << XlsxFile(FALSE, << >>),
         XlsxFile(TRUE, << Rec("Old", NameAb, "PASS", <<>>),
                           Rec(NaN, NameAb, "PARTIAL", <<>>) >>) >> }

\* is_stata_available lines 425-434: what the probe "<stata> -e display 1" can
\* end with: exit code 0, another exit code, TimeoutExpired after 5 seconds,
\* FileNotFoundError / OSError when the executable does not exist
ProbeOutcomes == {"zero", "nonzero", "timeout", "not_found"}

\* is_stata_available answering True for a probe that timed out
is_stata_available_TimeoutIsOk(p) == p \in {"zero", "timeout"}

\* lines 412-434: True only for exit code 0; the exceptions are caught
is_stata_available(p) == p = "zero"

\* setup_logging's timestamp, the module global that generate_report is
\* given (run_tests.py lines 540 and 508)
timestamp == "ts"

\* __main__ up to line 564: the flags are parsed, run_all_tests is about to
\* be called for the first time
Init ==
    /\ pc = "start"
    /\ run = 1
    /\ skip_stata \in BOOLEAN
    /\ probe \in ProbeOutcomes
    /\ dofiles \in BOOLEAN
    /\ stata_ok = FALSE
    /\ present \in SUBSET ScriptNames
    /\ xlsx \in XlsxConfigs
    /\ idx = 1
    /\ results = [n \in {} |-> MissingEntry]
    /\ order = << >>
    /\ all_results = << >>
    /\ report = NoReport
    /\ launched = [n \in ScriptNames |-> 0]
    /\ engine_by = {}
    /\ report_calls = << >>
    /\ exit_code = 0 - 1
    /\ text = <<>> /\ recs = <<>> /\ recs2 = <<>> /\ mode = "none"
    /\ fs = <<>> /\ call = <<>>
    /\ IdleRate /\ IdleLater

\* run_all_tests lines 440-452: the engine is probed unless the skip flag is
\* set; the probe starts an engine process when the executable exists
Probe ==
    /\ pc = "start"
    /\ pc' = "loop"
    /\ stata_ok' = (~skip_stata /\ is_stata_available(probe))
    /\ engine_by' = IF ~skip_stata /\ probe # "not_found"
                    THEN engine_by \cup {"is_stata_available"}
                    ELSE engine_by
    /\ UNCHANGED <<skip_stata, present, xlsx, idx, results, order, all_results,
                   report, run, probe, dofiles, launched, report_calls,
                   exit_code, rateVars, laterVars, extractVars, callVars>>

InLoop == pc = "loop" /\ idx <= Len(Scripts)

\* the engine processes a launched check starts: edge_case_tests.do is run
\* by the engine itself; test_framework.py is launched with "--root" only
\* (run_tests.py line 169), so its args.skip_stata is False and it calls
\* tester.run_all_tests() (test_framework.py lines 396-399), which runs the
\* project's do-files through run_stata_command (lines 152-158);
\* data_integrity_tests.py has no __main__ block and starts nothing
ChildEngine(name) ==
    IF name = "edge_case_tests.do" THEN {"run_stata_test"}
    ELSE IF name = "test_framework.py" /\ dofiles /\ probe # "not_found"
         THEN {"test_framework.py"}
         ELSE {}

\* subprocess.run started the child of the script
Launch(name) ==
    /\ launched' = [launched EXCEPT ![name] = @ + 1]
    /\ engine_by' = engine_by \cup ChildEngine(name)

NoLaunch == UNCHANGED <<launched, engine_by>>

\* results[script_name] = entry, then the next script
Record(name, entry) ==
    /\ results' = [n \in DOMAIN results \cup {name} |->
                      IF n = name THEN entry ELSE results[n]]
    /\ order' = IF name \in DOMAIN results THEN order ELSE Append(order, name)
    /\ idx' = idx + 1
    /\ UNCHANGED <<pc, skip_stata, stata_ok, present, xlsx, all_results, report,
                   run, probe, dofiles, report_calls, exit_code, rateVars, laterVars,
                   extractVars, callVars>>

\* the run leaves run_all_tests without returning: with an exception
\* ("raised") or waiting for a child that never exits ("blocked")
Leave(how) ==
    /\ pc' = how
    /\ UNCHANGED <<skip_stata, stata_ok, present, xlsx, idx, results, order,
                   all_results, report, run, probe, dofiles, report_calls,
                   exit_code, rateVars, laterVars, extractVars, callVars>>

\* ScriptMissing with "break" in the place of "continue"
ScriptMissing_Break ==
    /\ InLoop
    /\ Scripts[idx].name \notin present
    /\ results' = [n \in DOMAIN results \cup {Scripts[idx].name} |->
                      IF n = Scripts[idx].name THEN MissingEntry ELSE results[n]]
    /\ order' = Append(order, Scripts[idx].name)
    /\ idx' = Len(Scripts) + 1
    /\ UNCHANGED <<pc, skip_stata, stata_ok, present, xlsx, all_results, report,
                   mainVars, rateVars, laterVars, extractVars, callVars>>

\* lines 472-480: the script file does not exist
ScriptMissing ==
    /\ InLoop
    /\ Scripts[idx].name \notin present
    /\ Record(Scripts[idx].name, MissingEntry)
    /\ NoLaunch

\* lines 485-486 with run_python_test: the spawn raises, or the child exits
RunPython ==
    /\ InLoop
    /\ Scripts[idx].name \in present
    /\ Scripts[idx].type = "python"
    /\ \/ /\ Record(Scripts[idx].name, RunEntry(PythonExcept(ErrnoText)))
          /\ NoLaunch
       \/ /\ \E o \in ChildOutcomes :
                Record(Scripts[idx].name, RunEntry(PythonReturn(o)))
          /\ Launch(Scripts[idx].name)

\* lines 487-488 with run_stata_test: the spawn raises, or the child exits;
\* the temp script is written and removed inside the call
RunStata ==
    /\ InLoop
    /\ Scripts[idx].name \in present
    /\ Scripts[idx].type = "stata"
    /\ \/ /\ Record(Scripts[idx].name, RunEntry(StataExcept(ErrnoText)))
          /\ NoLaunch
       \/ /\ \E o \in ChildOutcomes :
                Record(Scripts[idx].name, RunEntry(StataReturn(o, TRUE)))
          /\ Launch(Scripts[idx].name)

\* run_stata_test lines 195-198: writing temp_wrapper.do raises, outside the
\* try block, and the exception leaves run_all_tests
RunStataRaises ==
    /\ InLoop
    /\ Scripts[idx].name \in present
    /\ Scripts[idx].type = "stata"
    /\ Leave("raised")
    /\ NoLaunch

\* subprocess.run has no timeout: the child never exits
RunBlocks ==
    /\ InLoop
    /\ Scripts[idx].name \in present
    /\ Leave("blocked")
    /\ Launch(Scripts[idx].name)

\* Combine taking the entries in the reverse order
RECURSIVE Combine_Reversed(_, _)
Combine_Reversed(all_script_results, names) ==
    IF names = << >> THEN << >>
    ELSE Combine_Reversed(all_script_results, Tail(names))
         \o all_script_results[Head(names)].test_results

\* collect_test_results lines 264-267: the records of every entry, in the
\* order of the results map
RECURSIVE Combine(_, _)
Combine(all_script_results, names) ==
    IF names = << >> THEN << >>
    ELSE all_script_results[Head(names)].test_results
         \o Combine(all_script_results, Tail(names))

\* lines 274-284: the rows of every spreadsheet that can be read
RECURSIVE ReadXlsx(_)
ReadXlsx(files) ==
    IF files = << >> THEN << >>
    ELSE (IF Head(files).readable THEN Head(files).rows ELSE << >>)
         \o ReadXlsx(Tail(files))

\* collect_test_results reading the spreadsheets whatever the scripts gave
collect_test_results_AlwaysXlsx(all_script_results, names, result_files) ==
    Combine(all_script_results, names) \o ReadXlsx(result_files)

\* lines 256-286
collect_test_results(all_script_results, names, result_files) ==
    LET combined_results == Combine(all_script_results, names)
    IN  IF result_files # << >> /\ combined_results = << >>
        THEN ReadXlsx(result_files)
        ELSE combined_results

\* line 504
Collect ==
    /\ pc = "loop" /\ idx > Len(Scripts)
    /\ all_results' = collect_test_results(results, order, xlsx)
    /\ pc' = "report"
    /\ UNCHANGED <<skip_stata, stata_ok, present, xlsx, idx, results, order,
                   report, mainVars, rateVars, laterVars, extractVars, callVars>>

CountOf(rs, statuses) ==
    Cardinality({i \in 1..Len(rs) : rs[i].result \in statuses})

\* pass_rate with the factor 100 left out
pass_rate_Fraction(pass_count, total) ==
    IF total > 0 THEN pass_count \div total ELSE 0

\* run_tests.py line 310 and test_framework.py line 359:
\* (pass_count / total) * 100 if total > 0 else 0, in whole percent
pass_rate(pass_count, total) ==
    IF total > 0 THEN (pass_count * 100) \div total ELSE 0

\* the category strings of the records, in the order sorted() gives them
Categories == << "Data Integrity", "Edge Cases", "Old" >>

\* line 350: results_df.groupby('test_category') yields the groups in sorted
\* key order and leaves out the rows whose key is missing (dropna=True)
GroupKeys(rs) ==
    SelectSeq(Categories,
              LAMBDA c : c # NaN /\ \E i \in 1..Len(rs) : rs[i].test_category = c)

\* lines 370-377
result_class(result) ==
    CASE result = "PASS" -> "pass"
      [] result = "FAIL" -> "fail"
      [] result = "ERROR" -> "error"
      [] result \in {"WARNING", "PARTIAL", "INCONCLUSIVE"} -> "warning"
      [] OTHER -> ""

\* lines 383-390: the <tr> of one row of a group
DetailRow(category, row) ==
    [test_category |-> category, test_name |-> row.test_name,
     result |-> row.result, class |-> result_class(row.result),
     notes |-> row.notes]

RECURSIVE GroupRows(_, _)
\* lines 362-390: for each group its rows in the order of the frame
GroupRows(rs, keys) ==
    IF keys = << >> THEN << >>
    ELSE LET category == Head(keys)
             group == SelectSeq(rs, LAMBDA r : r.test_category = category)
         IN  [i \in 1..Len(group) |-> DetailRow(category, group[i])]
             \o GroupRows(rs, Tail(keys))

\* lines 349-390: the detail rows of the HTML table
html_rows(rs) == GroupRows(rs, GroupKeys(rs))

\* line 407: results_df.to_excel writes every row of the frame
excel_rows(rs) == rs

\* generate_report lines 304-310 and the two files of lines 399-407
Summary(rs, html, excel) ==
    [built         |-> TRUE,
     total_tests   |-> Len(rs),
     pass_count    |-> CountOf(rs, {"PASS"}),
     fail_count    |-> CountOf(rs, {"FAIL"}),
     error_count   |-> CountOf(rs, {"ERROR"}),
     warning_count |-> CountOf(rs, {"WARNING", "PARTIAL"}),
     pass_rate     |-> pass_rate(CountOf(rs, {"PASS"}), Len(rs)),
     html_rows     |-> html_rows(rs),
     excel_rows    |-> excel_rows(rs),
     html_file     |-> html,
     excel_file    |-> excel]

\* the report files of this timestamp as an earlier call left them
OldHtml == IF report.built THEN report.html_file ELSE "absent"
OldExcel == IF report.built THEN report.excel_file ELSE "absent"

\* lines 506-512: generate_report when there are records.  Lines 399-407:
\* the HTML file is opened and written at its final path, then the
\* spreadsheet; open() failing leaves the path as it was, a failing write
\* leaves a partial file, and either exception leaves run_all_tests
Report ==
    /\ pc = "report"
    /\ IF all_results = << >>
       THEN pc' = "returned" /\ UNCHANGED <<report, report_calls>>
       ELSE /\ report_calls' = Append(report_calls, timestamp)
            /\ \/ /\ report' = Summary(all_results, "written", "written")
                  /\ pc' = "returned"
               \/ /\ \E html \in {OldHtml, "partial"} :
                        report' = Summary(all_results, html, OldExcel)
                  /\ pc' = "raised"
               \/ /\ \E excel \in {OldExcel, "partial"} :
                        report' = Summary(all_results, "written", excel)
                  /\ pc' = "raised"
    /\ UNCHANGED <<skip_stata, stata_ok, present, xlsx, idx, results, order,
                   all_results, run, probe, dofiles, launched, engine_by,
                   exit_code, rateVars, laterVars, extractVars, callVars>>

\* __main__ lines 564-571: run_all_tests(root_dir) is called a second time
\* once the first call has returned
SecondCall ==
    /\ pc = "returned" /\ run = 1
    /\ run' = 2
    /\ pc' = "start"
    /\ stata_ok' = FALSE
    /\ idx' = 1
    /\ results' = [n \in {} |-> MissingEntry]
    /\ order' = << >>
    /\ all_results' = << >>
    /\ UNCHANGED <<skip_stata, present, xlsx, report, probe, dofiles, launched,
                   engine_by, report_calls, exit_code, rateVars, laterVars, extractVars,
                   callVars>>

\* __main__ lines 577-606: the summary is printed and the script ends; there
\* is no sys.exit after the runs
Exit ==
    /\ pc = "returned" /\ run = 2
    /\ pc' = "exited"
    /\ exit_code' = 0
    /\ UNCHANGED <<skip_stata, stata_ok, present, xlsx, idx, results, order,
                   all_results, report, run, probe, dofiles, launched,
                   engine_by, report_calls, rateVars, laterVars, extractVars, callVars>>

\* an exception that left run_all_tests is not caught in __main__: the
\* interpreter prints the traceback and exits with status 1
Crash ==
    /\ pc = "raised"
    /\ pc' = "exited"
    /\ exit_code' = 1
    /\ UNCHANGED <<skip_stata, stata_ok, present, xlsx, idx, results, order,
                   all_results, report, run, probe, dofiles, launched,
                   engine_by, report_calls, rateVars, laterVars, extractVars, callVars>>

Next ==
    \/ Probe
    \/ ScriptMissing
    \/ RunPython
    \/ RunStata
    \/ RunStataRaises
    \/ RunBlocks
    \/ Collect
    \/ Report
    \/ SecondCall
    \/ Exit
    \/ Crash

Spec == Init /\ [][Next]_vars

(***************************************************************************)
(* Claims about the batch.                                                 *)
(***************************************************************************)
ProcessedNames(k) == [i \in 1..k |-> Scripts[i].name]

\* C1: no check's failure aborts the batch: at every point of the loop the
\* results map holds exactly one entry for each script before the current
\* one, whatever those scripts ended with (missing file, non-zero exit, spawn
\* exception), and when the loop is left for the report every script of the
\* declared list has its entry.
C1_NoCheckAbortsBatch ==
    /\ order = ProcessedNames(idx - 1)
    /\ DOMAIN results = {order[i] : i \in 1..Len(order)}
    /\ (pc \in {"report", "returned"} => idx = Len(Scripts) + 1)

\* a run that returned although the first script was missing and the second
\* exited with a non-zero code: the third one was still run
C1_Witness ==
    /\ pc = "returned"
    /\ Len(order) = 3
    /\ results["test_framework.py"] = MissingEntry
    /\ results["data_integrity_tests.py"].output = StderrText
    /\ ~results["data_integrity_tests.py"].success
    /\ results["edge_case_tests.do"].success

FailedToRun == {n \in DOMAIN results : ~results[n].success}

\* C2: the combined list holds, besides the records extracted from each check,
\* exactly one ERROR record for each check that failed to run, with the
\* captured error text as its notes.
C2_FailuresBecomeErrorRecords ==
    pc \in {"report", "returned"} =>
        /\ Len(all_results) =
              Len(Combine(results, order)) + Cardinality(FailedToRun)
        /\ \A n \in FailedToRun :
              \E i \in 1..Len(all_results) :
                 /\ all_results[i].result = "ERROR"
                 /\ all_results[i].notes = results[n].output

\* C3: the summary counts of a report add up to the number of its records.
C3_SummaryCountsAddUp ==
    report.built =>
        report.pass_count + report.fail_count + report.error_count
            + report.warning_count = report.total_tests

\* C12: the exit status of the run reflects the aggregated records: it is
\* non-zero exactly when some aggregated record is FAIL or ERROR.
C12_ExitStatusReflectsRecords ==
    pc = "exited" =>
        ((exit_code # 0) <=>
            \E i \in 1..Len(all_results) :
                all_results[i].result \in {"FAIL", "ERROR"})

\* C13: within one invocation no check script is launched a second time and
\* generate_report is not called twice with the same timestamp.
C13_EachCheckAndReportOnce ==
    /\ \A n \in ScriptNames : launched[n] <= 1
    /\ \A i, j \in 1..Len(report_calls) :
          i # j => report_calls[i] # report_calls[j]

\* C14: with the skip flag set no process of the statistical engine is
\* started, neither by run_all_tests nor by the check scripts it launches.
C14_SkipStartsNoEngine ==
    skip_stata => engine_by = {}

\* C15: when the probe of the engine does not end with exit code 0 (another
\* code, an exception, a timeout), the engine-dependent check is not launched
\* and has no entry in the results map.
C15_UnavailableEngineSkipsCheck ==
    ~skip_stata /\ probe # "zero" =>
        /\ launched["edge_case_tests.do"] = 0
        /\ "edge_case_tests.do" \notin DOMAIN results
        /\ "run_stata_test" \notin engine_by

\* a finished run whose probe timed out, with edge_case_tests.do on disk:
\* only the two Python checks have entries
C15_Witness ==
    /\ pc = "exited" /\ exit_code = 0
    /\ ~skip_stata /\ probe = "timeout"
    /\ "edge_case_tests.do" \in present
    /\ DOMAIN results = {"test_framework.py", "data_integrity_tests.py"}

\* C16: a run with zero records still gets its report: a report file showing
\* 0 tests and a pass rate of 0 is written.
C16_EmptyRunIsReported ==
    pc = "returned" /\ all_results = << >> =>
        /\ report.built
        /\ report.total_tests = 0
        /\ report.pass_rate = 0
        /\ report.html_file = "written"

(***************************************************************************)
(* SpecRate: the pass rate of generate_report (run_tests.py lines 292-310) *)
(* and of DataCleaningTester.run_all_tests (test_framework.py lines        *)
(* 357-359), computed for lists of record statuses.                        *)
(***************************************************************************)
MaxRecords == 4

StatusLists == UNION {[1..k -> SixStatuses] : k \in 0..MaxRecords}

InitRate ==
    /\ rate_in \in StatusLists
    /\ rate_out = NoRate
    /\ text = <<>> /\ recs = <<>> /\ recs2 = <<>> /\ mode = "none"
    /\ fs = <<>> /\ call = <<>>
    /\ pc = "idle" /\ skip_stata = FALSE /\ stata_ok = FALSE /\ present = {}
    /\ xlsx = <<>> /\ idx = 0 /\ results = <<>> /\ order = <<>>
    /\ all_results = <<>> /\ report = NoReport
    /\ IdleMain /\ IdleLater

Computed(by, pass_count, total, rate) ==
    [by |-> by, computed |-> TRUE, pass_count |-> pass_count,
     total |-> total, rate |-> rate]

\* generate_report: "if not results: return None, None" comes before the
\* counts; otherwise the summary of the records
RateReport ==
    /\ rate_out = NoRate
    /\ rate_out' =
          IF rate_in = << >>
          THEN [by |-> "generate_report", computed |-> FALSE]
          ELSE LET rs == [i \in 1..Len(rate_in) |->
                             Rec("Data Integrity", NameAb, rate_in[i], <<>>)]
                   sm == Summary(rs, "written", "written")
               IN  Computed("generate_report", sm.pass_count, sm.total_tests,
                            sm.pass_rate)
    /\ UNCHANGED <<rate_in, extractVars, callVars, pc, skip_stata, stata_ok,
                   present, xlsx, idx, results, order, all_results, report,
                   mainVars, laterVars>>

\* DataCleaningTester.run_all_tests: its results map holds "PASS" or "FAIL"
\* for the three pipelines and for every do-file
RateFramework ==
    /\ rate_out = NoRate
    /\ Len(rate_in) >= 3
    /\ \A i \in 1..Len(rate_in) : rate_in[i] \in {"PASS", "FAIL"}
    /\ LET pass_count == Cardinality({i \in 1..Len(rate_in) : rate_in[i] = "PASS"})
           total_count == Len(rate_in)
       IN  rate_out' = Computed("DataCleaningTester.run_all_tests", pass_count,
                                total_count, pass_rate(pass_count, total_count))
    /\ UNCHANGED <<rate_in, extractVars, callVars, pc, skip_stata, stata_ok,
                   present, xlsx, idx, results, order, all_results, report,
                   mainVars, laterVars>>

NextRate == RateReport \/ RateFramework

SpecRate == InitRate /\ [][NextRate]_vars

\* C17: the pass rate is the share of PASS records in percent (here in
\* whole percent, rounded down): it lies between 0 and 100, it is 0 for a
\* total of 0, and [PASS, PASS, FAIL, WARNING] gives 50; for generate_report
\* and for DataCleaningTester.run_all_tests.
C17_PassRate ==
    /\ pass_rate(0, 0) = 0
    /\ rate_out # NoRate /\ rate_out.computed =>
          /\ rate_out.total = Len(rate_in)
          /\ rate_out.pass_count =
                Cardinality({i \in 1..Len(rate_in) : rate_in[i] = "PASS"})
          /\ rate_out.rate >= 0 /\ rate_out.rate <= 100
          /\ rate_out.rate * rate_out.total <= rate_out.pass_count * 100
          /\ rate_out.pass_count * 100 < (rate_out.rate + 1) * rate_out.total
          /\ (rate_in = <<"PASS", "PASS", "FAIL", "WARNING">> =>
                 rate_out.rate = 50)

\* generate_report computed 50 for [PASS, PASS, FAIL, WARNING]
C17_Witness ==
    /\ rate_in = <<"PASS", "PASS", "FAIL", "WARNING">>
    /\ rate_out # NoRate
    /\ rate_out.by = "generate_report"
    /\ rate_out.rate = 50

\* the records of the checks in the order the checks are declared
RECURSIVE DeclaredRecords(_)
DeclaredRecords(k) ==
    IF k = 0 THEN << >>
    ELSE DeclaredRecords(k - 1) \o results[Scripts[k].name].test_results

\* the status tokens that follow a colon and a blank in the text, in the
\* order of the text
RECURSIVE MarkerStatuses(_, _)
MarkerStatuses(t, p) ==
    IF p > Len(t) THEN << >>
    ELSE LET hits == {st \in SixStatusWords :
                         /\ t[p] = ":"
                         /\ StartsWith(t, p + 1, <<" ">> \o st.chars)}
         IN  (IF hits = {} THEN << >> ELSE << (CHOOSE st \in hits : TRUE).tok >>)
             \o MarkerStatuses(t, p + 1)

StatusesOf(rs) == [i \in 1..Len(rs) |-> rs[i].result]

\* C18: the combined list is the concatenation of the checks' records in the
\* order the checks were declared (followed by nothing else unless no check
\* gave a record), and the records of a Python check are in the order of the
\* markers in its output.
C18_SourceOrderPreserved ==
    pc \in {"report", "returned"} =>
        LET want == DeclaredRecords(Len(Scripts))
        IN  /\ Len(all_results) >= Len(want)
            /\ SubSeq(all_results, 1, Len(want)) = want
            /\ (want # << >> => all_results = want)
            /\ \A k \in 1..Len(Scripts) :
                  LET entry == results[Scripts[k].name]
                  IN  Scripts[k].type = "python" /\ entry.success =>
                         StatusesOf(entry.test_results)
                            = MarkerStatuses(entry.output, 1)

\* the first check printed FAIL then INCONCLUSIVE, the second PASS: the
\* combined list has the three records in that order
C18_Witness ==
    /\ pc = "returned"
    /\ results["test_framework.py"].success
    /\ results["test_framework.py"].output = OutFailInconclusive
    /\ results["data_integrity_tests.py"].success
    /\ results["data_integrity_tests.py"].output = OutPass
    /\ StatusesOf(all_results) = <<"FAIL", "INCONCLUSIVE", "PASS">>

\* the rows of the spreadsheets that can be read, file after file
RECURSIVE ReadableRows(_)
ReadableRows(k) ==
    IF k = 0 THEN << >>
    ELSE ReadableRows(k - 1) \o (IF xlsx[k].readable THEN xlsx[k].rows ELSE << >>)

\* C28: the spreadsheets are a fallback only: when the checks gave at least
\* one record the collected list is exactly their concatenation, and rows
\* of spreadsheets appear only when no record was extracted; a spreadsheet
\* that cannot be read is skipped and the rows of the others are kept.
C28_SpreadsheetsOnlyAsFallback ==
    pc = "report" =>
        LET extracted == DeclaredRecords(Len(Scripts))
        IN  /\ extracted # << >> => all_results = extracted
            /\ extracted = << >> => all_results = ReadableRows(Len(xlsx))

\* no check gave a record, the first spreadsheet cannot be read, and the
\* rows of the second one were collected
C28_Witness ==
    /\ pc = "report"
    /\ DeclaredRecords(Len(Scripts)) = << >>
    /\ Len(xlsx) = 2 /\ ~xlsx[1].readable
    /\ all_results = xlsx[2].rows /\ all_results # << >>

\* C19: records extracted from the output of two different check scripts
\* carry different categories.
C19_CategoryOfTheCheck ==
    \A a \in DOMAIN results, b \in DOMAIN results :
        a # b =>
            \A i \in 1..Len(results[a].test_results),
               j \in 1..Len(results[b].test_results) :
                results[a].test_results[i].test_category
                    # results[b].test_results[j].test_category

\* C20: report writing is all-or-nothing: no partial file is at a report
\* path, and the HTML report is there only together with the spreadsheet.
C20_ReportAllOrNothing ==
    report.built =>
        /\ report.html_file # "partial"
        /\ report.excel_file # "partial"
        /\ (report.html_file = "written" <=> report.excel_file = "written")

\* C25: the reporter never drops a record: when run_all_tests has returned
\* with a report built from its records, the HTML table has one detail row
\* per record and the spreadsheet one row per record.
C25_ReporterDropsNoRecord ==
    (pc = "returned" /\ all_results # << >> /\ report.built)
        => /\ Len(report.html_rows) = Len(all_results)
           /\ Len(report.excel_rows) = Len(all_results)

\* ---------------------------------------------------------------------
\* SpecEngine: the command of the statistical engine, from the --stata
\* argument of run_tests.py to the probe and to the launch of the do-file
\* ---------------------------------------------------------------------

\* commands determine_stata_command (run_tests.py lines 52-114) can return,
\* and that --stata can name
Commands == {"stata-se", "stata-mp", "/usr/local/stata18/stata-mp"}

\* __main__ line 517: the arguments are about to be parsed; found_cmd is
\* what determine_stata_command() returns on this system whenever called
InitEngine ==
    /\ stata_arg \in {"none"} \cup Commands
    /\ found_cmd \in Commands
    /\ skip_stata \in BOOLEAN
    /\ probe \in ProbeOutcomes
    /\ stata_cmd = "unset" /\ probed_cmd = "none" /\ launched_cmd = "none"
    /\ epc = "main"
    /\ stata_ok = FALSE
    /\ text = <<>> /\ recs = <<>> /\ recs2 = <<>> /\ mode = "none"
    /\ fs = <<>> /\ call = <<>>
    /\ pc = "idle" /\ present = {}
    /\ xlsx = <<>> /\ idx = 0 /\ results = <<>> /\ order = <<>>
    /\ all_results = <<>> /\ report = NoReport
    /\ run = 0 /\ dofiles = FALSE /\ launched = <<>>
    /\ engine_by = {} /\ report_calls = <<>> /\ exit_code = 0 - 1
    /\ IdleRate /\ IdleIntegrity /\ IdleCleaning

EngineUnchanged ==
    UNCHANGED <<stata_arg, found_cmd, skip_stata, probe, extractVars, callVars,
                pc, present, xlsx, idx, results, order, all_results, report,
                run, dofiles, launched, engine_by, report_calls, exit_code,
                rateVars, integrityVars, cleaningVars>>

\* __main__ lines 546-557: with --skip-stata or --python-only no command is
\* stored; otherwise globals()['stata_cmd'] is the --stata argument when
\* one is given and determine_stata_command() when not
Configure ==
    /\ epc = "main"
    /\ epc' = "run_all_tests"
    /\ stata_cmd' = IF skip_stata THEN stata_cmd
                    ELSE IF stata_arg # "none" THEN stata_arg ELSE found_cmd
    /\ UNCHANGED <<probed_cmd, launched_cmd, stata_ok>>
    /\ EngineUnchanged

\* run_all_tests lines 441-452: unless the skip flag is set,
\* is_stata_available is called with globals().get('stata_cmd',
\* determine_stata_command())
ProbeCommand ==
    /\ epc = "run_all_tests"
    /\ epc' = "scripts"
    /\ IF skip_stata
       THEN UNCHANGED <<probed_cmd, stata_ok>>
       ELSE /\ probed_cmd' = IF stata_cmd # "unset" THEN stata_cmd ELSE found_cmd
            /\ stata_ok' = is_stata_available(probe)
    /\ UNCHANGED <<stata_cmd, launched_cmd>>
    /\ EngineUnchanged

HasStataScript ==
    \E i \in 1..Len(test_scripts(skip_stata, stata_ok)) :
        test_scripts(skip_stata, stata_ok)[i].type = "stata"

\* run_stata_test lines 200-217: stata_cmd = determine_stata_command() is a
\* local of run_stata_test, and cmd_parts starts with it
LaunchCommand ==
    /\ epc = "scripts"
    /\ HasStataScript
    /\ epc' = "done"
    /\ launched_cmd' = found_cmd
    /\ UNCHANGED <<stata_cmd, probed_cmd, stata_ok>>
    /\ EngineUnchanged

\* lines 455-462: the list of scripts holds no do-file
NoStataScript ==
    /\ epc = "scripts"
    /\ ~HasStataScript
    /\ epc' = "done"
    /\ UNCHANGED <<stata_cmd, probed_cmd, launched_cmd, stata_ok>>
    /\ EngineUnchanged

NextEngine == Configure \/ ProbeCommand \/ LaunchCommand \/ NoStataScript

SpecEngine == InitEngine /\ [][NextEngine]_vars

\* C26: the command run_stata_test launches the engine with is the command
\* run_all_tests probed with is_stata_available, and a command given with
\* --stata is the one used for both.
C26_LaunchedCommandIsProbed ==
    launched_cmd # "none"
        => /\ launched_cmd = probed_cmd
           /\ stata_arg # "none" => (probed_cmd = stata_arg /\ launched_cmd = stata_arg)

\* ---------------------------------------------------------------------
\* SpecIntegrity: the test methods of DataIntegrityTester
\* (data_integrity_tests.py), each run on a fresh tester
\* ---------------------------------------------------------------------

\* run_stata_check lines 66-102: None when the engine exits with a non-zero
\* code or cannot be started, otherwise the engine's stdout.  The stdout is
\* told apart by what the calling method looks for in it: "ok" holds the
\* success phrase of the check (for the duplicates check a DUPES_COUNT above
\* 0 and no critical values), "warning" its WARNING phrase (for the
\* duplicates check DUPES_WITH_CRITICAL_VALUES above 0), "info" the phrase
\* "INFO: Between 50% and 80% of student records", "zero" the line
\* "DUPES_COUNT: 0", "other" none of these
None == "None"
CheckOutputs == {None, "ok", "warning", "info", "zero", "other"}

\* __init__ line 22: self.results = {}; check_out[i] is what the i-th call
\* of run_stata_check returns
InitIntegrity ==
    /\ check_out \in CheckOutputs \X CheckOutputs
    /\ dit_results = << >>
    /\ dit_return = NoVerdict
    /\ text = <<>> /\ recs = <<>> /\ recs2 = <<>> /\ mode = "none"
    /\ fs = <<>> /\ call = <<>>
    /\ pc = "idle" /\ skip_stata = FALSE /\ stata_ok = FALSE /\ present = {}
    /\ xlsx = <<>> /\ idx = 0 /\ results = <<>> /\ order = <<>>
    /\ all_results = <<>> /\ report = NoReport
    /\ IdleMain /\ IdleRate /\ IdleEngine /\ IdleCleaning

\* self.results[name] = status
PutResult(res, name, status) ==
    [n \in DOMAIN res \cup {name} |-> IF n = name THEN status ELSE res[n]]

\* the method returns value with self.results = res
MethodReturns(method, res, value) ==
    /\ dit_return = NoVerdict
    /\ dit_results' = res
    /\ dit_return' = [method |-> method, value |-> value]
    /\ UNCHANGED <<check_out, extractVars, callVars, pc, skip_stata, stata_ok,
                   present, xlsx, idx, results, order, all_results, report,
                   mainVars, rateVars, engineVars, cleaningVars>>

\* lines 138-279
test_variable_consistency ==
    LET students == "Variable Consistency - Students"
        parents  == "Variable Consistency - Parents"
        r1 == PutResult(dit_results, students,
                        IF check_out[1] = "ok" THEN "PASS" ELSE "FAIL")
        r2 == PutResult(r1, parents,
                        IF check_out[2] = "ok" THEN "PASS" ELSE "FAIL")
    IN  IF check_out[1] = None
        THEN MethodReturns("test_variable_consistency",
                           PutResult(dit_results, "Variable Consistency", "FAIL"),
                           FALSE)
        ELSE IF check_out[2] = None
        THEN MethodReturns("test_variable_consistency",
                           PutResult(r1, parents, "FAIL"), FALSE)
        ELSE MethodReturns("test_variable_consistency", r2,
                           r2[students] = "PASS" /\ r2[parents] = "PASS")

\* lines 323-330 and 370-377
TransformationStatus(output) ==
    IF output = None THEN "INCONCLUSIVE"
    ELSE IF output = "ok" THEN "PASS" ELSE "WARNING"

\* lines 281-382
test_data_transformations ==
    /\ dit_return = NoVerdict
    /\ LET beliefs == "Data Transformations - Beliefs"
           factors == "Data Transformations - Motivation Factors"
           r1 == PutResult(dit_results, beliefs,
                           TransformationStatus(check_out[1]))
           r2 == PutResult(r1, factors, TransformationStatus(check_out[2]))
       IN  MethodReturns("test_data_transformations", r2,
                         "FAIL" \notin {r2[beliefs], r2[factors]})

\* lines 384-485
test_missing_values ==
    LET name == "Missing Values Check"
        output == check_out[1]
    IN  IF output = None
        THEN MethodReturns("test_missing_values",
                           PutResult(dit_results, name, "INCONCLUSIVE"), FALSE)
        ELSE IF output = "ok"
        THEN MethodReturns("test_missing_values",
                           PutResult(dit_results, name, "PASS"), TRUE)
        ELSE IF output = "warning"
        THEN MethodReturns("test_missing_values",
                           PutResult(dit_results, name, "WARNING"), TRUE)
        ELSE MethodReturns("test_missing_values",
                           PutResult(dit_results, name, "INCONCLUSIVE"), FALSE)

\* lines 487-671
test_dataset_coherence ==
    LET name == "Dataset Coherence"
        output == check_out[1]
    IN  IF output = None
        THEN MethodReturns("test_dataset_coherence",
                           PutResult(dit_results, name, "INCONCLUSIVE"), FALSE)
        ELSE IF output = "ok"
        THEN MethodReturns("test_dataset_coherence",
                           PutResult(dit_results, name, "PASS"), TRUE)
        ELSE IF output = "warning"
        THEN MethodReturns("test_dataset_coherence",
                           PutResult(dit_results, name, "WARNING"), FALSE)
        ELSE IF output = "info"
        THEN MethodReturns("test_dataset_coherence",
                           PutResult(dit_results, name, "PARTIAL"), TRUE)
        ELSE MethodReturns("test_dataset_coherence",
                           PutResult(dit_results, name, "INCONCLUSIVE"), FALSE)

\* lines 673-762
test_observation_preservation ==
    LET name == "Observation Preservation"
        output == check_out[1]
    IN  IF output = None
        THEN MethodReturns("test_observation_preservation",
                           PutResult(dit_results, name, "INCONCLUSIVE"), FALSE)
        ELSE IF output = "ok"
        THEN MethodReturns("test_observation_preservation",
                           PutResult(dit_results, name, "PASS"), TRUE)
        ELSE IF output = "warning"
        THEN MethodReturns("test_observation_preservation",
                           PutResult(dit_results, name, "WARNING"), FALSE)
        ELSE MethodReturns("test_observation_preservation",
                           PutResult(dit_results, name, "INCONCLUSIVE"), FALSE)

\* lines 764-866
test_duplicate_resolution_quality ==
    LET name == "Duplicate Resolution Quality"
        output == check_out[1]
    IN  IF output = None
        THEN MethodReturns("test_duplicate_resolution_quality",
                           PutResult(dit_results, name, "INCONCLUSIVE"), FALSE)
        ELSE IF output = "warning"
        THEN MethodReturns("test_duplicate_resolution_quality",
                           PutResult(dit_results, name, "WARNING"), FALSE)
        ELSE IF output \in {"ok", "zero"}
        THEN MethodReturns("test_duplicate_resolution_quality",
                           PutResult(dit_results, name, "PASS"), TRUE)
        ELSE MethodReturns("test_duplicate_resolution_quality",
                           PutResult(dit_results, name, "INCONCLUSIVE"), FALSE)

NextIntegrity ==
    \/ test_variable_consistency
    \/ test_data_transformations
    \/ test_missing_values
    \/ test_dataset_coherence
    \/ test_observation_preservation
    \/ test_duplicate_resolution_quality

SpecIntegrity == InitIntegrity /\ [][NextIntegrity]_vars

\* the calls of run_stata_check the method that returned has made
ChecksMade ==
    IF dit_return.method = "test_data_transformations" THEN {1, 2}
    ELSE IF dit_return.method = "test_variable_consistency" /\ check_out[1] # None
         THEN {1, 2}
         ELSE {1}

\* the entry a method records for its i-th check
EntryOfCheck(method, i) ==
    CASE method = "test_variable_consistency" ->
             IF i = 1 THEN "Variable Consistency"
             ELSE "Variable Consistency - Parents"
      [] method = "test_data_transformations" ->
             IF i = 1 THEN "Data Transformations - Beliefs"
             ELSE "Data Transformations - Motivation Factors"
      [] method = "test_missing_values" -> "Missing Values Check"
      [] method = "test_dataset_coherence" -> "Dataset Coherence"
      [] method = "test_observation_preservation" -> "Observation Preservation"
      [] OTHER -> "Duplicate Resolution Quality"

\* C27: when a call of run_stata_check returned None, the test method that
\* made the call has recorded FAIL or INCONCLUSIVE for that check, never
\* PASS or WARNING, and has returned False.
C27_NoneIsNeverSuccess ==
    dit_return.method # "none" =>
        \A i \in ChecksMade :
            check_out[i] = None =>
                /\ EntryOfCheck(dit_return.method, i) \in DOMAIN dit_results
                /\ dit_results[EntryOfCheck(dit_return.method, i)]
                       \in {"FAIL", "INCONCLUSIVE"}
                /\ dit_return.value = FALSE

\* ---------------------------------------------------------------------
\* SpecCleaning: DataCleaningTester.run_all_tests (test_framework.py)
\* over the do-files found under 2_code
\* ---------------------------------------------------------------------

\* file names that os.listdir can return for a dataset folder
FileNames ==
    { <<"1","0",".","d","o">>, <<"2",".","d","o">>,
      <<"_","3",".","d","o">>, <<"2",".","t","x","t">> }

Folders == {"PS_Students", "PS_Parents"}

\* a dataset folder: os.path.exists(dataset_dir) and os.listdir(dataset_dir)
Folder(exists, names) == [exists |-> exists, names |-> names]

FolderStates ==
    {Folder(FALSE, {})} \cup {Folder(TRUE, ns) : ns \in SUBSET FileNames}

\* ord() of the characters of the file names
CodePoint(c) ==
    CASE c = "." -> 46 [] c = "0" -> 48 [] c = "1" -> 49 [] c = "2" -> 50
      [] c = "3" -> 51 [] c = "_" -> 95 [] c = "d" -> 100 [] c = "o" -> 111
      [] c = "t" -> 116 [] c = "x" -> 120

\* a < b for Python strings: by the first differing character, a proper
\* prefix first
RECURSIVE StrLess(_, _)
StrLess(a, b) ==
    IF b = << >> THEN FALSE
    ELSE IF a = << >> THEN TRUE
    ELSE IF Head(a) # Head(b) THEN CodePoint(Head(a)) < CodePoint(Head(b))
    ELSE StrLess(Tail(a), Tail(b))

RECURSIVE sorted(_)
sorted(names) ==
    IF names = {} THEN << >>
    ELSE LET first == CHOOSE f \in names :
                          \A g \in names : g = f \/ StrLess(f, g)
         IN  << first >> \o sorted(names \ {first})

endswith(f, suffix) ==
    /\ Len(f) >= Len(suffix)
    /\ SubSeq(f, Len(f) - Len(suffix) + 1, Len(f)) = suffix

startswith(f, prefix) ==
    /\ Len(f) >= Len(prefix)
    /\ SubSeq(f, 1, Len(prefix)) = prefix

\* DoFiles keeping the names that start with "_"
DoFiles_KeepUnderscore(names) ==
    sorted({f \in names : endswith(f, <<".","d","o">>)})

\* lines 230-233 (and 324-325, 333-334): sorted([f for f in os.listdir(dir)
\* if f.endswith(".do") and not f.startswith("_")])
DoFiles(names) ==
    sorted({f \in names :
               endswith(f, <<".","d","o">>) /\ ~startswith(f, <<"_">>)})

\* __main__ line 399: tester.run_all_tests() is about to be called
InitCleaning ==
    /\ listing \in [Folders -> FolderStates]
    /\ master \in BOOLEAN
    /\ writable \in BOOLEAN
    /\ tpc = "student_pipeline"
    /\ ti = 1
    /\ t_results = << >>
    /\ t_log = << >>
    /\ text = <<>> /\ recs = <<>> /\ recs2 = <<>> /\ mode = "none"
    /\ fs = <<>> /\ call = <<>>
    /\ pc = "idle" /\ skip_stata = FALSE /\ stata_ok = FALSE /\ present = {}
    /\ xlsx = <<>> /\ idx = 0 /\ results = <<>> /\ order = <<>>
    /\ all_results = <<>> /\ report = NoReport
    /\ IdleMain /\ IdleRate /\ IdleEngine /\ IdleIntegrity

CleaningUnchanged ==
    UNCHANGED <<listing, master, writable, extractVars, callVars, pc,
                skip_stata, stata_ok, present, xlsx, idx, results, order,
                all_results, report, mainVars, rateVars, engineVars,
                integrityVars>>

\* results[test] = "PASS" if success else "FAIL"
Entry(test, dofile, success) ==
    [test |-> test, dofile |-> dofile,
     result |-> IF success THEN "PASS" ELSE "FAIL"]

\* the temporary script written for a test, with the do-files it runs
Written(test, dofile, path, script) ==
    [kind |-> "write", test |-> test, dofile |-> dofile, path |-> path,
     script |-> script]

\* run_stata_command lines 131-170: the engine run on a script; True for
\* return code 0, False for another code or an exception
EngineRun(test, dofile, path, success) ==
    [kind |-> "engine", test |-> test, dofile |-> dofile, path |-> path,
     success |-> success]

\* _test_dataset_pipeline lines 218-283, and the entry of lines 307-308 or
\* 314-315; open() of the temporary script is outside any try
Pipeline(test, dataset_folder, next) ==
    LET dofiles_ == DoFiles(listing[dataset_folder].names)
        temp_script_path == <<"temp_test", dataset_folder>>
    IN  IF ~listing[dataset_folder].exists \/ dofiles_ = << >>
        THEN /\ t_results' = Append(t_results, Entry(test, << >>, FALSE))
             /\ tpc' = next
             /\ UNCHANGED <<ti, t_log>>
        ELSE IF ~writable
        THEN /\ tpc' = "raised"
             /\ UNCHANGED <<ti, t_results, t_log>>
        ELSE \E success \in BOOLEAN :
                /\ t_log' = t_log \o
                      << Written(test, << >>, temp_script_path, dofiles_),
                         EngineRun(test, << >>, temp_script_path, success) >>
                /\ t_results' = Append(t_results, Entry(test, << >>, success))
                /\ tpc' = next
                /\ UNCHANGED ti

\* lines 303-308
StudentPipeline ==
    /\ tpc = "student_pipeline"
    /\ Pipeline("Student Pipeline", "PS_Students", "parent_pipeline")
    /\ CleaningUnchanged

\* lines 310-315
ParentPipeline ==
    /\ tpc = "parent_pipeline"
    /\ Pipeline("Parent Pipeline", "PS_Parents", "student_dofiles")
    /\ CleaningUnchanged

\* the do-files the loop of lines 323-328 (332-337) goes through
LoopFiles(dataset_folder) ==
    IF listing[dataset_folder].exists
    THEN DoFiles(listing[dataset_folder].names)
    ELSE << >>

\* test_individual_dofile lines 172-208 for the do-file the loop is at, and
\* the entry of line 328 or 337
IndividualDofile(test, dataset_folder) ==
    LET dofile == LoopFiles(dataset_folder)[ti]
        temp_script_path == <<"temp_test_script">>
    IN  IF ~writable
        THEN /\ tpc' = "raised"
             /\ UNCHANGED <<ti, t_results, t_log>>
        ELSE \E success \in BOOLEAN :
                /\ t_log' = t_log \o
                      << Written(test, dofile, temp_script_path, << dofile >>),
                         EngineRun(test, dofile, temp_script_path, success) >>
                /\ t_results' = Append(t_results, Entry(test, dofile, success))
                /\ ti' = ti + 1
                /\ UNCHANGED tpc

\* lines 322-328
StudentDofile ==
    /\ tpc = "student_dofiles"
    /\ ti <= Len(LoopFiles("PS_Students"))
    /\ IndividualDofile("Student", "PS_Students")
    /\ CleaningUnchanged

StudentDofilesDone ==
    /\ tpc = "student_dofiles"
    /\ ti > Len(LoopFiles("PS_Students"))
    /\ tpc' = "parent_dofiles"
    /\ ti' = 1
    /\ UNCHANGED <<t_results, t_log>>
    /\ CleaningUnchanged

\* lines 331-337
ParentDofile ==
    /\ tpc = "parent_dofiles"
    /\ ti <= Len(LoopFiles("PS_Parents"))
    /\ IndividualDofile("Parent", "PS_Parents")
    /\ CleaningUnchanged

ParentDofilesDone ==
    /\ tpc = "parent_dofiles"
    /\ ti > Len(LoopFiles("PS_Parents"))
    /\ tpc' = "full_pipeline"
    /\ ti' = 1
    /\ UNCHANGED <<t_results, t_log>>
    /\ CleaningUnchanged

\* test_full_pipeline lines 285-294 and the entry of lines 343-344
FullPipeline ==
    /\ tpc = "full_pipeline"
    /\ tpc' = "done"
    /\ IF ~master
       THEN /\ t_results' = Append(t_results, Entry("Full Pipeline", << >>, FALSE))
            /\ UNCHANGED t_log
       ELSE \E success \in BOOLEAN :
               /\ t_log' = Append(t_log, EngineRun("Full Pipeline", << >>,
                                                   <<"1_master">>, success))
               /\ t_results' = Append(t_results,
                                      Entry("Full Pipeline", << >>, success))
    /\ UNCHANGED ti
    /\ CleaningUnchanged

NextCleaning ==
    \/ StudentPipeline
    \/ ParentPipeline
    \/ StudentDofile
    \/ StudentDofilesDone
    \/ ParentDofile
    \/ ParentDofilesDone
    \/ FullPipeline

SpecCleaning == InitCleaning /\ [][NextCleaning]_vars

\* the place of a test in the fixed order of the phases
PhaseRank(test) ==
    CASE test = "Student Pipeline" -> 1
      [] test = "Parent Pipeline" -> 2
      [] test = "Student" -> 3
      [] test = "Parent" -> 4
      [] OTHER -> 5

\* the engine reported success for the test
EngineSucceeded(test, dofile) ==
    \E k \in 1..Len(t_log) :
        /\ t_log[k].kind = "engine"
        /\ t_log[k].test = test
        /\ t_log[k].dofile = dofile
        /\ t_log[k].success

\* C29: run_all_tests of DataCleaningTester goes through the phases in the
\* order student pipeline, parent pipeline, student do-files, parent
\* do-files, full pipeline; a failure in an earlier phase never keeps a later
\* phase from running (the run never leaves before the full pipeline has
\* its entry); every entry is PASS or FAIL, PASS exactly when the engine
\* reported success for it.
C29_EveryPhaseRuns ==
    /\ tpc # "raised"
    /\ \A i, j \in 1..Len(t_results) :
          i < j => PhaseRank(t_results[i].test) <= PhaseRank(t_results[j].test)
    /\ \A i \in 1..Len(t_results) :
          /\ t_results[i].result \in {"PASS", "FAIL"}
          /\ t_results[i].result = "PASS"
                <=> EngineSucceeded(t_results[i].test, t_results[i].dofile)
    /\ tpc = "done" =>
          {"Student Pipeline", "Parent Pipeline", "Full Pipeline"}
              \subseteq {t_results[i].test : i \in 1..Len(t_results)}

PipelineTests == {"Student Pipeline", "Parent Pipeline"}

PipelineFolder(test) ==
    IF test = "Student Pipeline" THEN "PS_Students" ELSE "PS_Parents"

\* the names of a folder that end with ".do" and do not start with "_"
RunnableNames(dataset_folder) ==
    {f \in listing[dataset_folder].names :
        /\ Len(f) >= 3
        /\ f[Len(f) - 2] = "." /\ f[Len(f) - 1] = "d" /\ f[Len(f)] = "o"
        /\ f[1] # "_"}

\* C30: the script _test_dataset_pipeline writes runs each do-file of the
\* folder exactly once, in ascending order of the file names, leaving out
\* the names that do not end with ".do" or that start with "_"; when the
\* folder is missing or holds no such file the pipeline test fails with no
\* temporary script written and no engine run.
C30_PipelineScript ==
    /\ \A k \in 1..Len(t_log) :
          (t_log[k].kind = "write" /\ t_log[k].test \in PipelineTests) =>
              LET script == t_log[k].script
              IN  /\ {script[i] : i \in 1..Len(script)}
                        = RunnableNames(PipelineFolder(t_log[k].test))
                  /\ \A i, j \in 1..Len(script) :
                        i < j => StrLess(script[i], script[j])
    /\ \A i \in 1..Len(t_results) :
          LET test == t_results[i].test
          IN  (/\ test \in PipelineTests
               /\ \/ ~listing[PipelineFolder(test)].exists
                  \/ RunnableNames(PipelineFolder(test)) = {})
                 => /\ t_results[i].result = "FAIL"
                    /\ \A k \in 1..Len(t_log) : t_log[k].test # test

\* the student folder holds 10.do, 2.do, _3.do and 2.txt: the script written
\* runs 10.do and then 2.do, and the engine was run on it
C30_Witness ==
    /\ listing["PS_Students"].names = FileNames
    /\ Len(t_log) >= 2
    /\ t_log[1].kind = "write" /\ t_log[1].test = "Student Pipeline"
    /\ t_log[1].script = << <<"1","0",".","d","o">>, <<"2",".","d","o">> >>
    /\ t_log[2].kind = "engine" /\ t_log[2].test = "Student Pipeline"
    /\ ~listing["PS_Parents"].exists
    /\ \E i \in 1..Len(t_results) :
          t_results[i].test = "Parent Pipeline" /\ t_results[i].result = "FAIL"

===========================================================================
